---- MODULE Spec2Model ----
(***************************************************************************)
(* Model of the tool-dispatch and response-shaping layer of the Ollama MCP *)
(* server (src/src/index.ts).                                              *)
(*                                                                         *)
(* Text is a sequence of string tokens: a template literal is the          *)
(* concatenation of its parts, and an interpolated value is one token.     *)
(* An optional JavaScript value is a sequence of length 0 (undefined) or 1.*)
(***************************************************************************)
EXTENDS Integers, Sequences, FiniteSets, TLC

VARIABLES
  pc,          \* per call: "idle", "exec" (awaiting execAsync), "http" (awaiting axios.post), "done"
  req,         \* per call: the CallTool request
  returned,    \* per call: the Envelope the handler returned
  thrown,      \* per call: the error the handler threw
  execLog,     \* per call: the command lines passed to execAsync
  httpLog,     \* per call: the requests passed to axios.post
  latencyOf,   \* per call: how long the daemon took
  respOf,      \* per call: what the backend answered
  now,         \* Date.now()
  fragments,   \* the stream of a run call: the fragments the daemon emitted
  chunks,      \* the chunks in which the transport delivers them
  srcPos,      \* how many chunks the pipe has read from response.data
  wq,          \* the chunks queued at the TransformStream's writable side
  pending,     \* the consumer has a read outstanding
  sstate,      \* the readable side: "readable", "closed", "errored"
  storedError, \* the error of an errored stream
  delivered    \* what the consumer has read

callVars == <<pc, req, returned, thrown, execLog, httpLog, latencyOf, respOf, now>>
streamVars == <<fragments, chunks, srcPos, wq, pending, sstate, storedError, delivered>>
vars == <<pc, req, returned, thrown, execLog, httpLog, latencyOf, respOf, now,
          fragments, chunks, srcPos, wq, pending, sstate, storedError, delivered>>

-----------------------------------------------------------------------------
(* Bounds *)

NumCalls == 2
MaxClock == 1
MaxMsgs == 2
MaxFrags == 3

Calls == 1..NumCalls

-----------------------------------------------------------------------------
(* JavaScript values *)

None == <<>>
Some(v) == <<v>>

\* `${v}` in a template literal: undefined prints as "undefined".
Str(o) == IF o = None THEN "undefined" ELSE o[1]

TruthyStr(o) == o # None /\ o[1] # ""
TruthyBool(o) == o # None /\ o[1]
TruthyNum(o) == o # None /\ o[1] # 0

Contains(text, sub) ==
  \E i \in 0..(Len(text) - Len(sub)) : SubSeq(text, i + 1, i + Len(sub)) = sub

DEFAULT_TIMEOUT == 60000

-----------------------------------------------------------------------------
(* Errors *)

\* A plain Error / TypeError / AxiosError: respError is response.data.error.
RawError(kind, message, respError) ==
  [kind |-> kind, code |-> "", message |-> message, respError |-> respError]

McpError(code, message) ==
  [kind |-> "McpError", code |-> code, message |-> message, respError |-> None]

formatError(error) == error.message

TypeErrorUndefined(field) ==
  RawError("TypeError", <<"Cannot read properties of undefined (reading '", field, "')">>, None)

isAxiosError(error) == error.kind = "AxiosError"

-----------------------------------------------------------------------------
(* Schema catalog *)

ToolNames == {"serve", "create", "show", "run", "pull", "push", "list", "cp", "rm",
              "chat_completion"}

\* A switch that lacks the case for rm.
RoutedNamesWithoutRm == {"serve", "create", "show", "run", "pull", "push", "list", "cp",
                         "chat_completion"}

\* The case labels of the CallTool handler's switch.
RoutedNames == {"serve", "create", "show", "run", "pull", "push", "list", "cp", "rm",
                "chat_completion"}

ProcessTools == {"serve", "create", "show", "pull", "push", "list", "cp", "rm"}
HttpTools == {"run", "chat_completion"}

Required(name) ==
  CASE name = "create" -> {"name", "modelfile"}
    [] name \in {"show", "pull", "push", "rm"} -> {"name"}
    [] name = "run" -> {"name", "prompt"}
    [] name = "cp" -> {"source", "destination"}
    [] name = "chat_completion" -> {"model", "messages"}
    [] OTHER -> {}

EmptyBag ==
  [name |-> None, modelfile |-> None, show_flag |-> None, verbose |-> None,
   prompt |-> None, timeout |-> None, source |-> None, destination |-> None,
   model |-> None, messages |-> None, temperature |-> None, num_predict |-> None]

Bag(fields) == [k \in DOMAIN EmptyBag |-> IF k \in DOMAIN fields THEN fields[k] ELSE None]

-----------------------------------------------------------------------------
(* Process invoker: the command line each handler builds, or the TypeError  *)
(* of reading a property of an undefined argument bag.                      *)

Built(cmd) == [ok |-> TRUE, cmd |-> cmd, error |-> None]
BuildFailed(error) == [ok |-> FALSE, cmd |-> <<>>, error |-> Some(error)]

ShowCommand(a) ==
  <<"ollama show ", Str(a.name)>>
    \o (IF TruthyStr(a.show_flag) THEN <<" --", Str(a.show_flag)>> ELSE <<>>)
    \o (IF TruthyBool(a.verbose) THEN <<" --verbose">> ELSE <<>>)

BuildCommand(name, args) ==
  IF name = "serve" THEN Built(<<"ollama serve">>)
  ELSE IF name = "list" THEN Built(<<"ollama list">>)
  ELSE IF args = None
    THEN BuildFailed(TypeErrorUndefined(IF name = "cp" THEN "source" ELSE "name"))
  ELSE LET a == args[1] IN
    CASE name = "create" -> Built(<<"ollama create ", Str(a.name), " -f ", Str(a.modelfile)>>)
      [] name = "show" -> Built(ShowCommand(a))
      [] name = "pull" -> Built(<<"ollama pull ", Str(a.name)>>)
      [] name = "push" -> Built(<<"ollama push ", Str(a.name)>>)
      [] name = "cp" -> Built(<<"ollama cp ", Str(a.source), " ", Str(a.destination)>>)
      [] name = "rm" -> Built(<<"ollama rm ", Str(a.name)>>)

\* exec hands the command line to a shell.  Lex is the shell's reading of one
\* piece of the line: blanks separate words, ";" ends a command.
Lex(tok) ==
  CASE tok \in {"ollama serve", "ollama list"} ->
         <<"ollama", " ", IF tok = "ollama serve" THEN "serve" ELSE "list">>
    [] tok = "ollama create " -> <<"ollama", " ", "create", " ">>
    [] tok = "ollama show " -> <<"ollama", " ", "show", " ">>
    [] tok = "ollama pull " -> <<"ollama", " ", "pull", " ">>
    [] tok = "ollama push " -> <<"ollama", " ", "push", " ">>
    [] tok = "ollama cp " -> <<"ollama", " ", "cp", " ">>
    [] tok = "ollama rm " -> <<"ollama", " ", "rm", " ">>
    [] tok = " -f " -> <<" ", "-f", " ">>
    [] tok = " --" -> <<" ", "--">>
    [] tok = " --verbose" -> <<" ", "--verbose">>
    [] tok = " " -> <<" ">>
    [] tok = "llama3; id" -> <<"llama3", ";", " ", "id">>
    [] tok = "my model" -> <<"my", " ", "model">>
    [] OTHER -> <<tok>>

RECURSIVE Pieces(_)
Pieces(cmd) == IF cmd = <<>> THEN <<>> ELSE Lex(Head(cmd)) \o Pieces(Tail(cmd))

RECURSIVE SplitOn(_, _)
SplitOn(pieces, sep) ==
  IF pieces = <<>> THEN << <<>> >>
  ELSE LET rest == SplitOn(Tail(pieces), sep) IN
       IF Head(pieces) = sep THEN << <<>> >> \o rest
       ELSE << <<Head(pieces)>> \o rest[1] >> \o Tail(rest)

NonEmpty(segs) == SelectSeq(segs, LAMBDA x : x # <<>>)

\* The commands the shell runs for a command line, each as its argument
\* vector; a word is the sequence of the pieces it is glued from.
ShellRuns(cmd) ==
  LET commands == SplitOn(Pieces(cmd), ";")
  IN NonEmpty([i \in 1..Len(commands) |-> NonEmpty(SplitOn(commands[i], " "))])

-----------------------------------------------------------------------------
(* Chat-completion adapter: the flattened prompt *)

\* A map callback that labels every message with its role as given.
RoleLineAnyRole(msg) == <<msg.role, ": ", Str(msg.content), "\n">>

\* The map callback: `System: ${msg.content}\n` and so on, '' for another role.
RoleLine(msg) ==
  CASE msg.role = "system" -> <<"System", ": ", Str(msg.content), "\n">>
    [] msg.role = "user" -> <<"User", ": ", Str(msg.content), "\n">>
    [] msg.role = "assistant" -> <<"Assistant", ": ", Str(msg.content), "\n">>
    [] OTHER -> <<>>

RECURSIVE Join(_)
Join(parts) == IF parts = <<>> THEN <<>> ELSE Head(parts) \o Join(Tail(parts))

FlattenPrompt(messages) == Join([i \in 1..Len(messages) |-> RoleLine(messages[i])])

-----------------------------------------------------------------------------
(* HTTP invoker: the request each HTTP-backed handler sends *)

EffectiveTimeout(a) == IF TruthyNum(a.timeout) THEN a.timeout[1] ELSE DEFAULT_TIMEOUT

Posted(request) == [ok |-> TRUE, request |-> Some(request), error |-> None]
PostFailed(error) == [ok |-> FALSE, request |-> None, error |-> Some(error)]

RunRequest(a) ==
  [url |-> "/api/generate",
   body |-> [model |-> a.name, prompt |-> a.prompt, stream |-> TRUE],
   timeout |-> EffectiveTimeout(a),
   responseType |-> "stream"]

ChatRequest(a) ==
  [url |-> "/api/generate",
   body |-> [model |-> a.model, prompt |-> FlattenPrompt(a.messages[1]), stream |-> FALSE,
             temperature |-> a.temperature, raw |-> TRUE],
   timeout |-> EffectiveTimeout(a),
   responseType |-> "json"]

BuildRequest(name, args) ==
  IF name = "run"
    THEN IF args = None THEN PostFailed(TypeErrorUndefined("name"))
         ELSE Posted(RunRequest(args[1]))
    ELSE IF args = None THEN PostFailed(TypeErrorUndefined("messages"))
         ELSE IF args[1].messages = None THEN PostFailed(TypeErrorUndefined("map"))
         ELSE Posted(ChatRequest(args[1]))

-----------------------------------------------------------------------------
(* Response normalizer: envelopes and faults *)

TextEnvelope(text) == [content |-> << [type |-> "text", text |-> text] >>]
StreamEnvelope(stream) == [content |-> << [type |-> "stream", stream |-> stream] >>]

Returns(envelope) == [returned |-> Some(envelope), thrown |-> None]
Throws(error) == [returned |-> None, thrown |-> Some(error)]

CatchPrefix(name) ==
  CASE name = "serve" -> "Failed to start Ollama server: "
    [] name = "create" -> "Failed to create model: "
    [] name = "show" -> "Failed to show model info: "
    [] name = "run" -> "Failed to run model: "
    [] name = "pull" -> "Failed to pull model: "
    [] name = "push" -> "Failed to push model: "
    [] name = "list" -> "Failed to list models: "
    [] name = "cp" -> "Failed to copy model: "
    [] name = "rm" -> "Failed to remove model: "
    [] name = "chat_completion" -> "Unexpected error: "

\* error.response?.data?.error || error.message
AxiosErrorText(error) ==
  IF error.respError # None /\ error.respError[1] # <<>> THEN error.respError[1]
  ELSE error.message

\* A catch clause that passes the caught error's own code on.
HandlerCatchKeepsCode(name, error) ==
  IF name \in HttpTools /\ isAxiosError(error)
    THEN McpError(error.code, <<"Ollama API error: ">> \o AxiosErrorText(error))
    ELSE McpError(error.code, <<CatchPrefix(name)>> \o formatError(error))

\* The catch clause of a handler.
HandlerCatch(name, error) ==
  IF name \in HttpTools /\ isAxiosError(error)
    THEN McpError("InternalError", <<"Ollama API error: ">> \o AxiosErrorText(error))
    ELSE McpError("InternalError", <<CatchPrefix(name)>> \o formatError(error))

\* A dispatcher catch clause without the instanceof test.
DispatchCatchWrapsAll(name, error) ==
  McpError("InternalError", <<"Error executing ", name, ": ">> \o formatError(error))

\* A dispatcher catch clause that prefixes every error, keeping a Fault's code.
DispatchCatchPrefixesFaults(name, error) ==
  McpError(IF error.kind = "McpError" THEN error.code ELSE "InternalError",
           <<"Error executing ", name, ": ">> \o formatError(error))

\* The catch clause of the CallTool request handler.
DispatchCatch(name, error) ==
  IF error.kind = "McpError" THEN error
  ELSE McpError("InternalError", <<"Error executing ", name, ": ">> \o formatError(error))

UnknownTool(name) == McpError("MethodNotFound", <<"Unknown tool: ", name>>)

-----------------------------------------------------------------------------
(* Backends *)

\* util.promisify(child_process.exec): resolves with {stdout, stderr} on exit
\* code 0 and rejects otherwise with an Error whose message holds the command
\* and the captured standard error.
ExecResults ==
  { [code |-> 0, stdout |-> "NAME ID SIZE", stderr |-> ""],
    [code |-> 0, stdout |-> "", stderr |-> "pulling manifest"],
    [code |-> 0, stdout |-> "success", stderr |-> "pulling manifest"],
    [code |-> 0, stdout |-> "", stderr |-> ""],
    [code |-> 1, stdout |-> "", stderr |-> "Error: model not found"],
    [code |-> 127, stdout |-> "", stderr |-> "/bin/sh: 1: ollama: not found"] }

ExecError(cmd, result) ==
  RawError("Error", <<"Command failed: ">> \o cmd \o <<"\n", result.stderr>>, None)

\* A success text that prefers the diagnostics.
StderrOrStdout(result) == IF result.stderr # "" THEN result.stderr ELSE result.stdout

\* stdout || stderr
StdoutOrStderr(result) == IF result.stdout # "" THEN result.stdout ELSE result.stderr

Latencies == {5000, 70000}

\* What the daemon does with a request, absent a timeout.
DaemonBehaviours ==
  { [kind |-> "ok", model |-> m, response |-> r, stream |-> "none", error |-> None] :
      m \in {"gemma3:1b", "gemma3:1b-q4"}, r \in {None, Some("4"), Some("")} }
  \cup
  { [kind |-> "ok", model |-> "gemma3:1b", response |-> None, stream |-> k, error |-> None] :
      k \in {"node", "web"} }
  \cup
  { [kind |-> "status", model |-> "", response |-> None, stream |-> "none", error |-> e] :
      e \in {None, Some(<<"model 'gemma3:1b' not found">>)} }
  \cup
  { [kind |-> "refused", model |-> "", response |-> None, stream |-> "none", error |-> None] }

\* The daemon answers a streamed request with a stream and a buffered one with JSON.
BehavioursFor(request) ==
  { b \in DaemonBehaviours :
      b.kind = "ok" => ((b.stream # "none") <=> (request.responseType = "stream")) }

TimeoutError == RawError("AxiosError", <<"timeout of ", "<ms>", "ms exceeded">>, None)
RefusedError == RawError("AxiosError", <<"connect ECONNREFUSED 127.0.0.1:11434">>, None)
\* With responseType stream, response.data is a stream and has no error member.
StatusError(request, b) ==
  RawError("AxiosError", <<"Request failed with status code ", "500">>,
           IF request.responseType = "stream" THEN None ELSE b.error)

\* axios.post: the response, or the AxiosError it rejects with.
AxiosPost(request, latency, b) ==
  IF request.timeout # 0 /\ latency > request.timeout
    THEN [ok |-> FALSE, error |-> Some(TimeoutError), data |-> b]
  ELSE IF b.kind = "refused" THEN [ok |-> FALSE, error |-> Some(RefusedError), data |-> b]
  ELSE IF b.kind = "status"
    THEN [ok |-> FALSE, error |-> Some(StatusError(request, b)), data |-> b]
  ELSE [ok |-> TRUE, error |-> None, data |-> b]

-----------------------------------------------------------------------------
(* Handlers, up to and after their single await *)

\* JSON.stringify leaves out the members whose value is undefined.
StringifyChoice(ch) ==
  IF ch.message.content = None
    THEN [index |-> ch.index, message |-> [role |-> ch.message.role],
          finish_reason |-> ch.finish_reason]
    ELSE [index |-> ch.index,
          message |-> [role |-> ch.message.role, content |-> ch.message.content[1]],
          finish_reason |-> ch.finish_reason]

JsonStringify(o) ==
  LET choices == [i \in 1..Len(o.choices) |-> StringifyChoice(o.choices[i])] IN
  IF o.model = None
    THEN [id |-> o.id, object |-> o.object, created |-> o.created, choices |-> choices]
    ELSE [id |-> o.id, object |-> o.object, created |-> o.created, model |-> o.model[1],
          choices |-> choices]

\* A result that echoes the model name of the daemon's reply.
ChatCompletionDaemonModel(a, data, clock) ==
  [id |-> <<"chatcmpl-", clock>>,
   object |-> "chat.completion",
   created |-> clock \div 1000,
   model |-> Some(data.model),
   choices |-> << [index |-> 0,
                   message |-> [role |-> "assistant", content |-> data.response],
                   finish_reason |-> "stop"] >>]

ChatCompletion(a, data, clock) ==
  [id |-> <<"chatcmpl-", clock>>,
   object |-> "chat.completion",
   created |-> clock \div 1000,
   model |-> a.model,
   choices |-> << [index |-> 0,
                   message |-> [role |-> "assistant", content |-> data.response],
                   finish_reason |-> "stop"] >>]

PipeThroughError ==
  RawError("TypeError", <<"response.data.pipeThrough is not a function">>, None)

\* The synchronous start of a call: an outcome at once, a subprocess or a request.
Begin(name, args) ==
  IF name \notin RoutedNames
    THEN [kind |-> "done", outcome |-> Throws(DispatchCatch(name, UnknownTool(name))),
          cmd |-> <<>>, request |-> None]
  ELSE IF name \in ProcessTools
    THEN LET b == BuildCommand(name, args) IN
         IF b.ok THEN [kind |-> "exec", outcome |-> Returns(<<>>), cmd |-> b.cmd, request |-> None]
         ELSE [kind |-> "done",
               outcome |-> Throws(DispatchCatch(name, HandlerCatch(name, b.error[1]))),
               cmd |-> <<>>, request |-> None]
  ELSE LET b == BuildRequest(name, args) IN
       IF b.ok THEN [kind |-> "http", outcome |-> Returns(<<>>), cmd |-> <<>>, request |-> b.request]
       ELSE [kind |-> "done",
             outcome |-> Throws(DispatchCatch(name, HandlerCatch(name, b.error[1]))),
             cmd |-> <<>>, request |-> None]

\* A process-backed handler after execAsync settles.
AfterExec(name, cmd, result) ==
  IF result.code = 0 THEN Returns(TextEnvelope(StdoutOrStderr(result)))
  ELSE Throws(DispatchCatch(name, HandlerCatch(name, ExecError(cmd, result))))

\* handleRun and handleChatCompletion after axios.post settles.
AfterPost(name, args, response, clock) ==
  IF ~response.ok THEN Throws(DispatchCatch(name, HandlerCatch(name, response.error[1])))
  ELSE IF name = "run"
    THEN IF response.data.stream = "web" THEN Returns(StreamEnvelope("transformStream.readable"))
         ELSE Throws(DispatchCatch(name, HandlerCatch(name, PipeThroughError)))
  ELSE Returns(TextEnvelope(JsonStringify(ChatCompletion(args[1], response.data, clock))))

-----------------------------------------------------------------------------
(* Inputs *)

Opt(S) == {None} \cup {Some(v) : v \in S}

\* Model names: a plain one, one with a command separator, one with a blank.
ModelNames == {"llama3", "llama3; id", "my model"}

\* The sampling overrides a caller may add: none, or a temperature with an
\* output-length cap (the temperature in tenths).
SamplingChoices ==
  { [temperature |-> None, num_predict |-> None],
    [temperature |-> Some(7), num_predict |-> Some(-1)] }

Roles == {"system", "user", "assistant", "tool"}
Msgs ==
  {[role |-> r, content |-> Some("2+2?")] : r \in Roles}
    \cup {[role |-> "system", content |-> Some("Be terse")]}
MsgLists(n) == UNION {[1..k -> Msgs] : k \in 0..n}

BagsFor(name) ==
  CASE name = "create" ->
         {Bag([name |-> n, modelfile |-> f]) : n \in Opt(ModelNames), f \in Opt({"Modelfile"})}
    [] name = "show" ->
         {Bag([name |-> n, show_flag |-> f, verbose |-> v]) :
            n \in Opt(ModelNames), f \in Opt({"license"}), v \in Opt({TRUE})}
    [] name \in {"pull", "push", "rm"} -> {Bag([name |-> n]) : n \in Opt(ModelNames)}
    [] name = "cp" ->
         {Bag([source |-> x, destination |-> y]) : x \in Opt(ModelNames), y \in Opt({"copy"})}
    [] name = "run" ->
         {Bag([name |-> n, prompt |-> q, timeout |-> t, temperature |-> o.temperature,
               num_predict |-> o.num_predict]) :
            n \in Opt({"llama3"}), q \in Opt({"hi"}), t \in Opt({1000}), o \in SamplingChoices}
    [] name = "chat_completion" ->
         {Bag([model |-> m, messages |-> l, timeout |-> t, temperature |-> o.temperature,
               num_predict |-> o.num_predict]) :
            m \in Opt({"gemma3:1b"}), l \in Opt(MsgLists(MaxMsgs)), t \in Opt({1000}),
            o \in SamplingChoices}
    [] OTHER -> {EmptyBag}

Requests ==
  UNION { {[name |-> n, arguments |-> a] : a \in Opt(BagsFor(n))} :
          n \in ToolNames \cup {"bogus"} }

ExampleMessages ==
  << [role |-> "system", content |-> Some("Be terse")],
     [role |-> "user", content |-> Some("2+2?")] >>

ConcurrentRequests ==
  { [name |-> "chat_completion",
     arguments |-> Some(Bag([model |-> Some("gemma3:1b"), messages |-> Some(ExampleMessages)]))],
    [name |-> "run",
     arguments |-> Some(Bag([name |-> Some("llama3"), prompt |-> Some("hi")]))],
    [name |-> "list", arguments |-> None] }

-----------------------------------------------------------------------------
(* The dispatcher: one action per step between awaits *)

\* A dispatcher that keeps the last outcome in one field of the server object.
FinishShared(c, outcome) ==
  /\ pc' = [pc EXCEPT ![c] = "done"]
  /\ returned' = [d \in DOMAIN returned |-> outcome.returned]
  /\ thrown' = [d \in DOMAIN thrown |-> outcome.thrown]

Finish(c, outcome) ==
  /\ pc' = [pc EXCEPT ![c] = "done"]
  /\ returned' = [returned EXCEPT ![c] = outcome.returned]
  /\ thrown' = [thrown EXCEPT ![c] = outcome.thrown]

CallTool(c, r) ==
  /\ pc[c] = "idle"
  /\ req' = [req EXCEPT ![c] = Some(r)]
  /\ LET b == Begin(r.name, r.arguments) IN
       /\ execLog' = [execLog EXCEPT ![c] = IF b.kind = "exec" THEN <<b.cmd>> ELSE <<>>]
       /\ httpLog' = [httpLog EXCEPT ![c] = IF b.kind = "http" THEN b.request ELSE <<>>]
       /\ IF b.kind = "done" THEN Finish(c, b.outcome)
          ELSE /\ pc' = [pc EXCEPT ![c] = b.kind]
               /\ UNCHANGED <<returned, thrown>>
  /\ UNCHANGED <<latencyOf, respOf, now>>
  /\ UNCHANGED streamVars

ExecSettles(c) ==
  /\ pc[c] = "exec"
  /\ \E result \in ExecResults :
       /\ respOf' = [respOf EXCEPT ![c] = Some(result)]
       /\ Finish(c, AfterExec(req[c][1].name, execLog[c][1], result))
  /\ UNCHANGED <<req, execLog, httpLog, latencyOf, now>>
  /\ UNCHANGED streamVars

PostSettles(c) ==
  /\ pc[c] = "http"
  /\ \E latency \in Latencies, b \in BehavioursFor(httpLog[c][1]) :
       /\ latencyOf' = [latencyOf EXCEPT ![c] = Some(latency)]
       /\ respOf' = [respOf EXCEPT ![c] = Some(b)]
       /\ Finish(c, AfterPost(req[c][1].name, req[c][1].arguments,
                              AxiosPost(httpLog[c][1], latency, b), now))
  /\ UNCHANGED <<req, execLog, httpLog, now>>
  /\ UNCHANGED streamVars

\* Date.now() advances.
Tick ==
  /\ now < MaxClock
  /\ now' = now + 1
  /\ UNCHANGED <<pc, req, returned, thrown, execLog, httpLog, latencyOf, respOf>>
  /\ UNCHANGED streamVars

CallInit(S) ==
  /\ pc = [c \in S |-> "idle"]
  /\ req = [c \in S |-> None]
  /\ returned = [c \in S |-> None]
  /\ thrown = [c \in S |-> None]
  /\ execLog = [c \in S |-> <<>>]
  /\ httpLog = [c \in S |-> <<>>]
  /\ latencyOf = [c \in S |-> None]
  /\ respOf = [c \in S |-> None]
  /\ now = 0

StreamIdle ==
  /\ fragments = <<>>
  /\ chunks = <<>>
  /\ srcPos = 0
  /\ wq = <<>>
  /\ pending = FALSE
  /\ sstate = "readable"
  /\ storedError = None
  /\ delivered = <<>>

\* One call, with every request of the input space.
Init == CallInit({1}) /\ StreamIdle

Next ==
  \/ \E c \in DOMAIN pc, r \in Requests : CallTool(c, r)
  \/ \E c \in DOMAIN pc : ExecSettles(c)
  \/ \E c \in DOMAIN pc : PostSettles(c)
  \/ Tick

Spec == Init /\ [][Next]_vars

\* NumCalls calls in flight together, interleaved at their awaits.
InitConcurrent == CallInit(Calls) /\ StreamIdle

NextConcurrent ==
  \/ \E c \in DOMAIN pc, r \in ConcurrentRequests : CallTool(c, r)
  \/ \E c \in DOMAIN pc : ExecSettles(c)
  \/ \E c \in DOMAIN pc : PostSettles(c)
  \/ Tick

SpecConcurrent == InitConcurrent /\ [][NextConcurrent]_vars

-----------------------------------------------------------------------------
(* The stream of a run call: response.data.pipeThrough(transformStream).    *)
(* The TransformStream has the default strategies: its writable side holds  *)
(* one chunk, its readable side none, so transform runs when the consumer   *)
(* has a read outstanding.                                                  *)

WritableHighWaterMark == 1

Fragment(valid, response, done) == [valid |-> valid, response |-> response, done |-> done]

\* What the daemon may emit: text deltas, a fragment with only the completion
\* flag, and bytes that are no JSON.
FragmentKinds ==
  { Fragment(TRUE, Some("He"), FALSE), Fragment(TRUE, Some("llo"), FALSE),
    Fragment(TRUE, None, TRUE), Fragment(FALSE, None, FALSE) }

FragmentSeqs == UNION {[1..k -> FragmentKinds] : k \in 0..MaxFrags}

\* The transport delivers the fragments in order, one or more to a chunk.
RECURSIVE Chunkings(_)
Chunkings(fs) ==
  IF fs = <<>> THEN {<<>>}
  ELSE UNION { {<<SubSeq(fs, 1, k)>> \o rest : rest \in Chunkings(SubSeq(fs, k + 1, Len(fs)))} :
               k \in 1..Len(fs) }

SyntaxError == RawError("SyntaxError", <<"Unexpected token in JSON">>, None)

StreamError(error) ==
  McpError("InternalError", <<"Error processing stream: ">> \o formatError(error))

\* JSON.parse(chunk.toString()) takes exactly one JSON value.
Parses(chunk) == Len(chunk) = 1 /\ chunk[1].valid

\* transform(chunk, controller): enqueue json.response, or controller.error.
Transform(chunk) ==
  IF Parses(chunk) THEN [ok |-> TRUE, value |-> chunk[1].response, error |-> None]
  ELSE [ok |-> FALSE, value |-> None, error |-> Some(StreamError(SyntaxError))]

\* A pipe that reads whatever the source has, room or not.
PipeWriteEager ==
  /\ sstate = "readable"
  /\ srcPos < Len(chunks)
  /\ wq' = Append(wq, chunks[srcPos + 1])
  /\ srcPos' = srcPos + 1
  /\ UNCHANGED <<fragments, chunks, pending, sstate, storedError, delivered>>
  /\ UNCHANGED callVars

\* The pipe reads the next chunk when the writable side has room.
PipeWrite ==
  /\ sstate = "readable"
  /\ srcPos < Len(chunks)
  /\ Len(wq) < WritableHighWaterMark
  /\ wq' = Append(wq, chunks[srcPos + 1])
  /\ srcPos' = srcPos + 1
  /\ UNCHANGED <<fragments, chunks, pending, sstate, storedError, delivered>>
  /\ UNCHANGED callVars

\* The consumer of the Envelope reads from the stream.
ConsumerRead ==
  /\ sstate = "readable"
  /\ ~pending
  /\ pending' = TRUE
  /\ UNCHANGED <<fragments, chunks, srcPos, wq, sstate, storedError, delivered>>
  /\ UNCHANGED callVars

TransformChunk ==
  /\ sstate = "readable"
  /\ wq # <<>>
  /\ pending
  /\ LET t == Transform(Head(wq)) IN
       IF t.ok
         THEN /\ delivered' = Append(delivered, t.value)
              /\ wq' = Tail(wq)
              /\ UNCHANGED <<sstate, storedError>>
         ELSE /\ sstate' = "errored"
              /\ storedError' = t.error
              /\ wq' = <<>>
              /\ UNCHANGED delivered
  /\ pending' = FALSE
  /\ UNCHANGED <<fragments, chunks, srcPos>>
  /\ UNCHANGED callVars

\* The source has ended and every chunk has been transformed.
StreamClose ==
  /\ sstate = "readable"
  /\ srcPos = Len(chunks)
  /\ wq = <<>>
  /\ sstate' = "closed"
  /\ pending' = FALSE
  /\ UNCHANGED <<fragments, chunks, srcPos, wq, storedError, delivered>>
  /\ UNCHANGED callVars

RunRequestExample ==
  [name |-> "run", arguments |-> Some(Bag([name |-> Some("llama3"), prompt |-> Some("hi")]))]

\* A run call that has returned its stream block.
RunReturned ==
  LET r == RunRequestExample
      b == Begin(r.name, r.arguments)
      d == CHOOSE x \in BehavioursFor(b.request[1]) : x.kind = "ok" /\ x.stream = "web"
      l == CHOOSE x \in Latencies : x <= b.request[1].timeout
      o == AfterPost(r.name, r.arguments, AxiosPost(b.request[1], l, d), 0)
  IN /\ pc = [c \in {1} |-> "done"]
     /\ req = [c \in {1} |-> Some(r)]
     /\ returned = [c \in {1} |-> o.returned]
     /\ thrown = [c \in {1} |-> o.thrown]
     /\ execLog = [c \in {1} |-> <<>>]
     /\ httpLog = [c \in {1} |-> b.request]
     /\ latencyOf = [c \in {1} |-> Some(l)]
     /\ respOf = [c \in {1} |-> Some(d)]
     /\ now = 0

InitStream ==
  /\ RunReturned
  /\ fragments \in FragmentSeqs
  /\ chunks \in Chunkings(fragments)
  /\ srcPos = 0
  /\ wq = <<>>
  /\ pending = FALSE
  /\ sstate = "readable"
  /\ storedError = None
  /\ delivered = <<>>

NextStream ==
  \/ PipeWrite
  \/ ConsumerRead
  \/ TransformChunk
  \/ StreamClose

SpecStream == InitStream /\ [][NextStream]_vars

-----------------------------------------------------------------------------
(* Claims about the dispatcher *)

\* The codes of a Fault: not-found, invalid-argument, internal-error as the
\* McpError codes MethodNotFound, InvalidParams, InternalError; backend-error
\* as BackendError.
FaultCodes == {"MethodNotFound", "InvalidParams", "BackendError", "InternalError"}

WellFormedBlock(b) ==
  \/ DOMAIN b = {"type", "text"} /\ b.type = "text"
  \/ DOMAIN b = {"type", "stream"} /\ b.type = "stream"

WellFormedEnvelope(e) ==
  /\ DOMAIN e = {"content"}
  /\ Len(e.content) >= 1
  /\ \A i \in 1..Len(e.content) : WellFormedBlock(e.content[i])

WellFormedFault(f) ==
  /\ f.kind = "McpError"
  /\ f.code \in FaultCodes
  /\ f.message # <<>>

Done(c) == pc[c] = "done"
NameOf(c) == req[c][1].name
ArgsOf(c) == req[c][1].arguments
NoBackendCall(c) == execLog[c] = <<>> /\ httpLog[c] = <<>> /\ respOf[c] = None

BackendFailed(c) ==
  /\ respOf[c] # None
  /\ \/ NameOf(c) \in ProcessTools /\ respOf[c][1].code # 0
     \/ NameOf(c) \in HttpTools
        /\ ~AxiosPost(httpLog[c][1], latencyOf[c][1], respOf[c][1]).ok

C2_UnknownToolNotFound ==
  \A c \in DOMAIN pc :
    (req[c] # None /\ NameOf(c) \notin ToolNames) =>
      /\ Done(c)
      /\ returned[c] = None
      /\ thrown[c] # None
      /\ thrown[c][1].kind = "McpError"
      /\ thrown[c][1].code = "MethodNotFound"
      /\ NoBackendCall(c)

C2_Witness == \E c \in DOMAIN pc : Done(c) /\ NameOf(c) = "bogus" /\ thrown[c] # None

MissingRequired(r) ==
  /\ Required(r.name) # {}
  /\ \/ r.arguments = None
     \/ \E f \in Required(r.name) : r.arguments[1][f] = None

\* C3: a call of a declared operation that lacks a required field ends in an
\* InvalidParams Fault and makes no backend call.
C3_MissingFieldRejected ==
  \A c \in DOMAIN pc :
    (req[c] # None /\ NameOf(c) \in ToolNames /\ MissingRequired(req[c][1])) =>
      /\ Done(c)
      /\ thrown[c] # None
      /\ thrown[c][1].code = "InvalidParams"
      /\ NoBackendCall(c)

\* C4: a process-backed call whose subprocess exits non-zero or cannot be
\* spawned ends in a BackendError Fault whose message holds the captured
\* error text.
C4_ProcessFailureIsBackendError ==
  \A c \in DOMAIN pc :
    (Done(c) /\ NameOf(c) \in ProcessTools /\ BackendFailed(c)) =>
      /\ thrown[c] # None
      /\ thrown[c][1].code = "BackendError"
      /\ Contains(thrown[c][1].message, <<respOf[c][1].stderr>>)

TimedOut(c) ==
  /\ httpLog[c] # <<>> /\ latencyOf[c] # None
  /\ latencyOf[c][1] > httpLog[c][1].timeout

\* C7: an HTTP call carries the caller's timeout, or 60000 ms without one; a
\* call that exceeds it ends in a BackendError Fault that differs, in code or
\* message, from the Fault of a refused connection.
C7_TimeoutBackendErrorDistinct ==
  \A c \in DOMAIN pc :
    (req[c] # None /\ NameOf(c) \in HttpTools /\ httpLog[c] # <<>>) =>
      /\ httpLog[c][1].timeout =
           (IF ArgsOf(c)[1].timeout # None THEN ArgsOf(c)[1].timeout[1] ELSE 60000)
      /\ (Done(c) /\ TimedOut(c)) =>
           /\ thrown[c] # None
           /\ thrown[c][1].code = "BackendError"
           /\ LET other == DispatchCatch(NameOf(c), HandlerCatch(NameOf(c), RefusedError)) IN
                thrown[c][1].code # other.code \/ thrown[c][1].message # other.message

ChatRoles == {"system", "user", "assistant"}
Capitalized(role) ==
  CASE role = "system" -> "System" [] role = "user" -> "User" [] role = "assistant" -> "Assistant"

IsChatCall(c) ==
  /\ req[c] # None /\ NameOf(c) = "chat_completion"
  /\ ArgsOf(c) # None /\ ArgsOf(c)[1].messages # None

MessagesOf(c) == ArgsOf(c)[1].messages[1]
KnownIndices(msgs) == {i \in 1..Len(msgs) : msgs[i].role \in ChatRoles}
Rank(msgs, i) == Cardinality({j \in KnownIndices(msgs) : j < i})

\* C8: for every message list the adapter sends one request, not streamed and
\* in raw mode, whose prompt holds, in list order, the four parts label, ": ",
\* content, newline of each system, user or assistant message and nothing for
\* a message of another role.
C8_PromptIsFlattenedList ==
  \A c \in DOMAIN pc :
    IsChatCall(c) =>
      /\ Len(httpLog[c]) = 1
      /\ execLog[c] = <<>>
      /\ httpLog[c][1].body.stream = FALSE
      /\ httpLog[c][1].body.raw = TRUE
      /\ LET msgs == MessagesOf(c)
             prompt == httpLog[c][1].body.prompt
         IN /\ Len(prompt) = 4 * Cardinality(KnownIndices(msgs))
            /\ \A i \in KnownIndices(msgs) :
                 SubSeq(prompt, 4 * Rank(msgs, i) + 1, 4 * Rank(msgs, i) + 4) =
                   <<Capitalized(msgs[i].role), ": ", msgs[i].content[1], "\n">>

C8_Witness ==
  \E c \in DOMAIN pc :
    /\ IsChatCall(c)
    /\ Len(MessagesOf(c)) = 2
    /\ MessagesOf(c)[1].role = "tool"
    /\ MessagesOf(c)[2].role = "user"
    /\ httpLog[c] # <<>>
    /\ httpLog[c][1].body.prompt = <<"User", ": ", "2+2?", "\n">>

ChatSucceeded(c) == IsChatCall(c) /\ Done(c) /\ returned[c] # None

\* C9: a successful chat_completion call returns one text block whose result
\* echoes the requested model and has the single choice index 0, role
\* assistant, the daemon's response text as content, finish reason "stop".
C9_ChatCompletionShape ==
  \A c \in DOMAIN pc :
    ChatSucceeded(c) =>
      /\ Len(returned[c][1].content) = 1
      /\ returned[c][1].content[1].type = "text"
      /\ LET doc == returned[c][1].content[1].text IN
           /\ ArgsOf(c)[1].model # None =>
                "model" \in DOMAIN doc /\ doc.model = ArgsOf(c)[1].model[1]
           /\ Len(doc.choices) = 1
           /\ doc.choices[1].index = 0
           /\ doc.choices[1].message.role = "assistant"
           /\ respOf[c][1].response # None =>
                /\ "content" \in DOMAIN doc.choices[1].message
                /\ doc.choices[1].message.content = respOf[c][1].response[1]
           /\ doc.choices[1].finish_reason = "stop"

C9_Witness ==
  \E c \in DOMAIN pc :
    /\ ChatSucceeded(c)
    /\ ArgsOf(c)[1].model = Some("gemma3:1b")
    /\ respOf[c][1].model # "gemma3:1b"
    /\ respOf[c][1].response = Some("4")
    /\ returned[c][1].content[1].text.choices[1].message.content = "4"

\* C10: any two chat_completion calls that succeed carry different ids, also
\* when they complete within the same clock millisecond.
C10_IdsUnique ==
  \A c, d \in DOMAIN pc :
    (c # d /\ ChatSucceeded(c) /\ ChatSucceeded(d)) =>
      returned[c][1].content[1].text.id # returned[d][1].content[1].text.id

-----------------------------------------------------------------------------
(* Claims about the stream of a run call *)

WellFormed(fs) == \A i \in 1..Len(fs) : fs[i].valid

\* The text deltas of the fragments, in order; a fragment without text has none.
RECURSIVE TextDeltas(_)
TextDeltas(fs) ==
  IF fs = <<>> THEN <<>>
  ELSE (IF Head(fs).response # None THEN <<Head(fs).response>> ELSE <<>>)
         \o TextDeltas(Tail(fs))

IsPrefix(s, t) == Len(s) <= Len(t) /\ SubSeq(t, 1, Len(s)) = s

\* C5: for well-formed fragments the consumer reads their text deltas in the
\* order emitted, nothing else, and the stream then closes.
C5_StreamYieldsTextDeltas ==
  WellFormed(fragments) =>
    /\ IsPrefix(delivered, TextDeltas(fragments))
    /\ sstate # "errored"
    /\ sstate = "closed" => delivered = TextDeltas(fragments)

Undecodable == {i \in 1..Len(chunks) : ~Parses(chunks[i])}
FirstUndecodable == CHOOSE i \in Undecodable : \A j \in Undecodable : i <= j

\* C6: a chunk that does not decode fails the stream with a BackendError
\* Fault; the chunk is not skipped and nothing after it is delivered.
C6_DecodeFailureFailsStream ==
  /\ Undecodable # {} => Len(delivered) < FirstUndecodable
  /\ sstate = "closed" => Undecodable = {}
  /\ sstate = "errored" =>
       /\ storedError # None
       /\ storedError[1].kind = "McpError"
       /\ storedError[1].code = "BackendError"
       /\ Len(delivered) = FirstUndecodable - 1

-----------------------------------------------------------------------------
(* Claims about the forwarded overrides, the command line and the catalog *)

Forwarded(body, field, value) == field \in DOMAIN body /\ body[field] = value

\* C11: a temperature and an output-length cap (num_predict) the caller
\* supplies to run or chat_completion are in the request sent to the daemon
\* with the same value, a cap of -1 as -1.
C11_OverridesForwarded ==
  \A c \in DOMAIN pc :
    (req[c] # None /\ NameOf(c) \in HttpTools /\ httpLog[c] # <<>>) =>
      /\ ArgsOf(c)[1].temperature # None =>
           Forwarded(httpLog[c][1].body, "temperature", ArgsOf(c)[1].temperature)
      /\ ArgsOf(c)[1].num_predict # None =>
           Forwarded(httpLog[c][1].body, "num_predict", ArgsOf(c)[1].num_predict)

\* The string arguments a process-backed call interpolates as a model name or
\* a file.
ShellArguments(c) ==
  LET a == ArgsOf(c)[1]
  IN { a[f][1] : f \in { g \in {"name", "modelfile", "source", "destination"} : a[g] # None } }

\* C12: a process-backed call is rejected with a Fault before anything runs,
\* or the shell runs exactly one command, the ollama tool, with each argument
\* value as one literal word; no value makes a second command run.
C12_OneLiteralInvocation ==
  \A c \in DOMAIN pc :
    (req[c] # None /\ NameOf(c) \in ProcessTools) =>
      \/ execLog[c] = <<>> /\ (Done(c) => thrown[c] # None)
      \/ /\ execLog[c] # <<>>
         /\ Len(ShellRuns(execLog[c][1])) = 1
         /\ ShellRuns(execLog[c][1])[1][1] = <<"ollama">>
         /\ ArgsOf(c) # None =>
              \A v \in ShellArguments(c) :
                \E i \in 1..Len(ShellRuns(execLog[c][1])[1]) :
                  ShellRuns(execLog[c][1])[1][i] = <<v>>

ExitedZero(c) ==
  /\ Done(c)
  /\ NameOf(c) \in ProcessTools
  /\ respOf[c] # None
  /\ respOf[c][1].code = 0

\* C13: when the subprocess of a process-backed operation exits with code 0,
\* the call returns an Envelope of exactly one text block, whose text is the
\* captured standard output if that is non-empty and the captured standard
\* error otherwise.
C13_SuccessTextIsStdoutElseStderr ==
  \A c \in DOMAIN pc :
    ExitedZero(c) =>
      /\ thrown[c] = None
      /\ returned[c] # None
      /\ Len(returned[c][1].content) = 1
      /\ returned[c][1].content[1].type = "text"
      /\ returned[c][1].content[1].text =
           (IF respOf[c][1].stdout # "" THEN respOf[c][1].stdout ELSE respOf[c][1].stderr)

C13_Witness ==
  \E c \in DOMAIN pc :
    /\ ExitedZero(c)
    /\ respOf[c][1].stdout = ""
    /\ respOf[c][1].stderr # ""
    /\ returned[c] = Some(TextEnvelope(respOf[c][1].stderr))

-----------------------------------------------------------------------------
(* Claims about concurrent calls *)

\* The outcome of request r run alone, given what its backend did and the
\* clock it read.
AloneOutcome(r, settled, latency, clock) ==
  LET b == Begin(r.name, r.arguments)
  IN IF b.kind = "done" THEN b.outcome
     ELSE IF b.kind = "exec" THEN AfterExec(r.name, b.cmd, settled[1])
     ELSE AfterPost(r.name, r.arguments, AxiosPost(b.request[1], latency[1], settled[1]), clock)

\* C14: however the calls in flight interleave at their awaits, the outcome of
\* each (its Envelope or its Fault) is the one the same request gives alone
\* with the same backend response.
C14_OutcomeAsIfAlone ==
  \A c \in DOMAIN pc :
    Done(c) =>
      \E clock \in 0..now :
        [returned |-> returned[c], thrown |-> thrown[c]]
          = AloneOutcome(req[c][1], respOf[c], latencyOf[c], clock)

C14_Witness ==
  \E c, d \in DOMAIN pc :
    /\ c # d
    /\ Done(c)
    /\ returned[c] # None
    /\ pc[d] \in {"exec", "http"}
    /\ req[c] # req[d]

-----------------------------------------------------------------------------
(* Claims about the stream's backpressure *)

\* The chunks read from the daemon's response and not yet handed to the
\* consumer.
Undelivered == srcPos - Len(delivered)

-----------------------------------------------------------------------------
(* Claims about the catalog and the dispatcher *)

\* How each handler's command line begins.
CommandHead(name) ==
  CASE name = "serve" -> "ollama serve"
    [] name = "list" -> "ollama list"
    [] name = "create" -> "ollama create "
    [] name = "show" -> "ollama show "
    [] name = "pull" -> "ollama pull "
    [] name = "push" -> "ollama push "
    [] name = "cp" -> "ollama cp "
    [] name = "rm" -> "ollama rm "

\* The trace call c has left is that of the handler of its own name: its
\* command line, its kind of request, or its catch clause's message.
ReachedOwnHandler(c) ==
  /\ execLog[c] # <<>> => NameOf(c) \in ProcessTools /\ execLog[c][1][1] = CommandHead(NameOf(c))
  /\ httpLog[c] # <<>> =>
       /\ NameOf(c) \in HttpTools
       /\ httpLog[c][1].body.stream = (NameOf(c) = "run")
       /\ httpLog[c][1].responseType = (IF NameOf(c) = "run" THEN "stream" ELSE "json")
  /\ (Done(c) /\ NoBackendCall(c)) =>
       /\ thrown[c] # None
       /\ thrown[c][1].message[1] = CatchPrefix(NameOf(c))

\* C16: the names the catalog advertises are exactly the names the dispatcher
\* routes: a call to an advertised name runs the handler of that name and
\* never ends in the not-found Fault, and every routed name is advertised.
C16_CatalogIsRouted ==
  /\ RoutedNames \subseteq ToolNames
  /\ \A c \in DOMAIN pc :
       (req[c] # None /\ NameOf(c) \in ToolNames) =>
         /\ ~(thrown[c] # None /\ thrown[c][1].code = "MethodNotFound")
         /\ execLog[c] # <<>> \/ httpLog[c] # <<>> \/ Done(c)
         /\ ReachedOwnHandler(c)

C16_Witness ==
  \E c \in DOMAIN pc :
    /\ Done(c)
    /\ NameOf(c) = "rm"
    /\ execLog[c] # <<>>
    /\ execLog[c][1][1] = "ollama rm "
    /\ returned[c] # None

\* The Fault raised inside the switch for call c: by the default branch, or by
\* the catch clause of the handler of its name.
RaisedInside(c) ==
  LET name == NameOf(c)
      args == ArgsOf(c)
  IN IF name \notin RoutedNames THEN UnknownTool(name)
     ELSE IF execLog[c] # <<>>
       THEN HandlerCatch(name, ExecError(execLog[c][1], respOf[c][1]))
     ELSE IF httpLog[c] # <<>>
       THEN LET response == AxiosPost(httpLog[c][1], latencyOf[c][1], respOf[c][1])
            IN HandlerCatch(name, IF response.ok THEN PipeThroughError ELSE response.error[1])
     ELSE IF name \in ProcessTools THEN HandlerCatch(name, BuildCommand(name, args).error[1])
     ELSE HandlerCatch(name, BuildRequest(name, args).error[1])

\* C17: a Fault raised inside a handler leaves the dispatcher with the code
\* and the message it was raised with; the dispatcher wraps only what is not
\* a Fault, so no Fault carries the "Error executing <name>" prefix or is
\* wrapped a second time.
C17_FaultPassesUnchanged ==
  \A c \in DOMAIN pc :
    (Done(c) /\ thrown[c] # None) =>
      /\ thrown[c][1] = RaisedInside(c)
      /\ \A i \in 1..Len(thrown[c][1].message) : thrown[c][1].message[i] # "Error executing "

C17_Witness ==
  \E c \in DOMAIN pc :
    /\ Done(c)
    /\ thrown[c] # None
    /\ execLog[c] # <<>>
    /\ thrown[c][1].code = "InternalError"
    /\ thrown[c][1].message[1] = CatchPrefix(NameOf(c))

====
